---------------------------- MODULE Spec2Model ----------------------------
(***************************************************************************)
(* A model of StockMarkert.py: the Stock record, StockAnalyzer.load_data   *)
(* (row validation), the read-only queries get_all_results,                *)
(* get_top_stocks, aggregate_by_sector, print_details and export_csv, and  *)
(* the __main__ script.                                                    *)
(*                                                                         *)
(* Representation.                                                          *)
(*  - A Python str is a tuple of one-character strings, so that strip(),   *)
(*    str.isalpha() and float() are computed character by character.       *)
(*  - A raw row is a function from a subset of the column names to a str   *)
(*    or to None.  csv.DictReader gives a short line None for the columns  *)
(*    it lacks; a column the header lacks is a key no row has.  The rows   *)
(*    of one file therefore share their key set; sequences of rows with    *)
(*    differing key sets are what load_data's loop body can be handed by   *)
(*    a record source in general, and the model draws rows independently.  *)
(*  - A float is [kind, neg, mant, exp]: kind "num" is the finite decimal  *)
(*    (-1)^neg * mant / 10^exp with trailing zeros removed (the sign of    *)
(*    zero is kept, as repr() shows it); kind "nan" is NaN.  The input     *)
(*    alphabet has no "e", "i", "f" or "_", so exponents, infinities and   *)
(*    digit separators do not occur.                                       *)
(*  - return_pct and avg_return are integers counting hundredths (two      *)
(*    decimals is all round(x, 2) keeps).  The prices of the alphabets     *)
(*    give quotients that are never at a rounding tie.                     *)
(***************************************************************************)
EXTENDS Integers, Sequences, FiniteSets, TLC

VARIABLES
    pc,            \* where the run is
    stocks,        \* self.stocks
    invalid_rows,  \* self.invalid_rows
    locals,        \* load_data's locals stock_name, sector, price_start_str, price_end_str
    log,           \* history: the rows the reader has yielded and what became of each
    console,       \* what the run has printed, one tag per message
    ret,           \* the last method call of a client and what it returned
    first,         \* history: the first method call of a client and what it returned
    csvfile        \* the exported file: whether it was written, and its rows

vars == <<pc, stocks, invalid_rows, locals, log, console, ret, first, csvfile>>

-----------------------------------------------------------------------------
(* Bounds *)

\* rows of a file read by the __main__ run
MaxRows == 2
\* rows of a file read for a client of the class
MaxRecs == 3
\* largest n a client passes to get_top_stocks
MaxN == 3

-----------------------------------------------------------------------------
(* str *)

None == <<"<None>">>
Unbound == <<"<unbound>">>
NA == <<"N", "/", "A">>

Whitespace == {" "}
Digits == {"0", "1", "2"}
Letters == {"a", "n", "A", "B", "C", "D", "E", "N", "T", "t"}

isalpha(c) == c \in Letters

RECURSIVE lstrip(_)
lstrip(s) == IF s /= <<>> /\ Head(s) \in Whitespace THEN lstrip(Tail(s)) ELSE s

RECURSIVE rstrip(_)
rstrip(s) ==
    IF s /= <<>> /\ s[Len(s)] \in Whitespace
    THEN rstrip(SubSeq(s, 1, Len(s) - 1))
    ELSE s

strip(s) == rstrip(lstrip(s))

-----------------------------------------------------------------------------
(* float *)

NaN == [kind |-> "nan", neg |-> FALSE, mant |-> 0, exp |-> 0]
ValueError == [kind |-> "ValueError", neg |-> FALSE, mant |-> 0, exp |-> 0]

RECURSIVE Num(_, _, _)
Num(neg, mant, exp) ==
    IF exp > 0 /\ mant % 10 = 0
    THEN Num(neg, mant \div 10, exp - 1)
    ELSE [kind |-> "num", neg |-> neg, mant |-> mant, exp |-> exp]

DigitVal(c) == CASE c = "0" -> 0 [] c = "1" -> 1 [] c = "2" -> 2

RECURSIVE DigitsVal(_)
DigitsVal(s) ==
    IF s = <<>> THEN 0
    ELSE 10 * DigitsVal(SubSeq(s, 1, Len(s) - 1)) + DigitVal(s[Len(s)])

Lower(c) == CASE c = "N" -> "n" [] c = "A" -> "a" [] OTHER -> c

IsNanWord(b) == Len(b) = 3 /\ [i \in 1..3 |-> Lower(b[i])] = <<"n", "a", "n">>

IsDecimal(b) ==
    /\ \A i \in 1..Len(b) : b[i] \in Digits \cup {"."}
    /\ Cardinality({i \in 1..Len(b) : b[i] = "."}) <= 1
    /\ \E i \in 1..Len(b) : b[i] \in Digits

\* float(s) of a str: leading and trailing whitespace ignored, an optional sign,
\* then "nan" or digits with at most one point; anything else is a ValueError.
float(s) ==
    LET t == strip(s)
        signed == t /= <<>> /\ t[1] \in {"+", "-"}
        neg == t /= <<>> /\ t[1] = "-"
        b == IF signed THEN Tail(t) ELSE t
        digs == SelectSeq(b, LAMBDA c : c /= ".")
        dot == IF \E i \in 1..Len(b) : b[i] = "."
               THEN CHOOSE i \in 1..Len(b) : b[i] = "."
               ELSE Len(b)
    IN  IF IsNanWord(b) THEN NaN
        ELSE IF IsDecimal(b) THEN Num(neg, DigitsVal(digs), Len(b) - dot)
        ELSE ValueError

\* v > 0 and v <= 0 of a float: both are false of NaN
Gt0(v) == v.kind = "num" /\ ~v.neg /\ v.mant > 0
Le0(v) == v.kind = "num" /\ (v.neg \/ v.mant = 0)

RECURSIVE Pow10(_)
Pow10(n) == IF n = 0 THEN 1 ELSE 10 * Pow10(n - 1)

Signed(v) == IF v.neg THEN 0 - v.mant ELSE v.mant

\* round(n / d, 0) for d > 0, ties to even
RoundDiv(n, d) ==
    LET q == n \div d
        r == n % d
    IN  IF 2 * r < d THEN q
        ELSE IF 2 * r > d THEN q + 1
        ELSE IF q % 2 = 0 THEN q ELSE q + 1

-----------------------------------------------------------------------------
(* class Stock *)

\* Stock.compute_return, in hundredths
compute_return(price_start, price_end) ==
    IF Gt0(price_start)
    THEN LET a == Signed(price_end) * Pow10(price_start.exp)
             b == Signed(price_start) * Pow10(price_end.exp)
         IN  RoundDiv(10000 * (a - b), b)
    ELSE 0

\* Stock.__init__
Stock(stock, sector, price_start, price_end) ==
    [stock |-> stock, sector |-> sector,
     price_start |-> price_start, price_end |-> price_end,
     return_pct |-> compute_return(price_start, price_end)]

\* Stock.to_dict
to_dict(s) ==
    [Stock |-> s.stock, Sector |-> s.sector, PriceStart |-> s.price_start,
     PriceEnd |-> s.price_end, Return |-> s.return_pct]

-----------------------------------------------------------------------------
(* StockAnalyzer.load_data: one iteration of `for row in reader` *)

Keys == <<"Stock", "Sector", "PriceStart", "PriceEnd">>
KeySet == {"Stock", "Sector", "PriceStart", "PriceEnd"}
LocalNames == <<"stock_name", "sector", "price_start_str", "price_end_str">>

NoLocals == [n \in {LocalNames[i] : i \in 1..4} |-> Unbound]

\* the first of the four statements row[key].strip() that raises, 5 when none does:
\* a KeyError when the row has no such key, an AttributeError when its value is None
FailAt(row) ==
    LET bad == {i \in 1..4 : Keys[i] \notin DOMAIN row \/ row[Keys[i]] = None}
    IN  IF bad = {} THEN 5 ELSE CHOOSE i \in bad : \A j \in bad : i <= j

\* the assignments without .strip()
TryLocals_NoStrip(l, row) ==
    [n \in DOMAIN l |->
        LET i == CHOOSE j \in 1..4 : LocalNames[j] = n
        IN  IF i < FailAt(row) THEN row[Keys[i]] ELSE l[n]]

\* the locals after the assignments that ran; the others keep what an earlier
\* iteration left in them
TryLocals(l, row) ==
    [n \in DOMAIN l |->
        LET i == CHOOSE j \in 1..4 : LocalNames[j] = n
        IN  IF i < FailAt(row) THEN strip(row[Keys[i]]) ELSE l[n]]

\* the else branch's reason with < 0 in place of <= 0
PositiveReason_Strict(price_start, price_end) ==
    [msg |-> "Prices must be > 0",
     suffix |-> (IF Le0(price_start) /\ price_start.mant > 0
                 THEN <<<<"PriceStart", price_start>>>> ELSE <<>>)
                \o (IF Le0(price_end) /\ price_end.mant > 0
                    THEN <<<<"PriceEnd", price_end>>>> ELSE <<>>)]

\* the else branch's reason; a float is formatted by repr(), which is one-to-one
\* on floats, so the suffix carries the float itself
PositiveReason(price_start, price_end) ==
    [msg |-> "Prices must be > 0",
     suffix |-> (IF Le0(price_start) THEN <<<<"PriceStart", price_start>>>> ELSE <<>>)
                \o (IF Le0(price_end) THEN <<<<"PriceEnd", price_end>>>> ELSE <<>>)]

\* the except clause's reason without the isinstance test
ExceptReason_AnyError(e, price_start_str, price_end_str) ==
    [msg |-> IF (\E i \in 1..Len(price_start_str) : isalpha(price_start_str[i]))
                \/ (\E i \in 1..Len(price_end_str) : isalpha(price_end_str[i]))
             THEN "Invalid alphabets in PriceStart or PriceEnd"
             ELSE "Invalid numeric format in PriceStart or PriceEnd",
     suffix |-> <<>>]

\* the except clause's reason
ExceptReason(e, price_start_str, price_end_str) ==
    [msg |-> IF e = "ValueError"
             THEN IF (\E i \in 1..Len(price_start_str) : isalpha(price_start_str[i]))
                     \/ (\E i \in 1..Len(price_end_str) : isalpha(price_end_str[i]))
                  THEN "Invalid alphabets in PriceStart or PriceEnd"
                  ELSE "Invalid numeric format in PriceStart or PriceEnd"
             ELSE "Invalid data format",
     suffix |-> <<>>]

\* the dict the else branch appends
InvalidEntry(l, reason) ==
    [Stock |-> l.stock_name, Sector |-> l.sector,
     PriceStart |-> l.price_start_str, PriceEnd |-> l.price_end_str,
     Reason |-> reason]

\* the locals the except clause's dict reads: those whose key the row has
ExceptReads(row) == {i \in 1..4 : Keys[i] \in DOMAIN row}

\* the dict the except clause appends
ExceptEntry(l, row, reason) ==
    [Stock |-> IF "Stock" \in DOMAIN row THEN l.stock_name ELSE NA,
     Sector |-> IF "Sector" \in DOMAIN row THEN l.sector ELSE NA,
     PriceStart |-> IF "PriceStart" \in DOMAIN row THEN l.price_start_str ELSE NA,
     PriceEnd |-> IF "PriceEnd" \in DOMAIN row THEN l.price_end_str ELSE NA,
     Reason |-> reason]

\* The body of the loop for one row, from the locals l an earlier iteration left:
\* the locals after it and what it did. kind is "stock" (appended to self.stocks),
\* "rejected" (appended to self.invalid_rows) or "raised" (an exception that
\* neither except clause of load_data catches).
load_row(l, row) ==
    LET at == FailAt(row)
        l2 == TryLocals(l, row)
        price_start == float(l2.price_start_str)
        price_end == float(l2.price_end_str)
    IN  IF at <= 4 /\ Keys[at] \in DOMAIN row
        THEN [locals |-> l2, kind |-> "raised", error |-> "AttributeError",
              stock |-> <<>>, entry |-> <<>>]
        ELSE IF at <= 4
        THEN IF \E i \in ExceptReads(row) : l2[LocalNames[i]] = Unbound
             THEN [locals |-> l2, kind |-> "raised", error |-> "UnboundLocalError",
                   stock |-> <<>>, entry |-> <<>>]
             ELSE [locals |-> l2, kind |-> "rejected", error |-> "KeyError",
                   stock |-> <<>>,
                   entry |-> ExceptEntry(l2, row,
                                ExceptReason("KeyError", l2.price_start_str,
                                             l2.price_end_str))]
        ELSE IF price_start.kind = "ValueError" \/ price_end.kind = "ValueError"
        THEN [locals |-> l2, kind |-> "rejected", error |-> "ValueError",
              stock |-> <<>>,
              entry |-> ExceptEntry(l2, row,
                           ExceptReason("ValueError", l2.price_start_str,
                                        l2.price_end_str))]
        ELSE IF Gt0(price_start) /\ Gt0(price_end)
        THEN [locals |-> l2, kind |-> "stock", error |-> "none",
              stock |-> Stock(l2.stock_name, l2.sector, price_start, price_end),
              entry |-> <<>>]
        ELSE [locals |-> l2, kind |-> "rejected", error |-> "none",
              stock |-> <<>>,
              entry |-> InvalidEntry(l2, PositiveReason(price_start, price_end))]

-----------------------------------------------------------------------------
(* The rows a reader yields *)

Row(st, se, ps, pe) == [Stock |-> st, Sector |-> se, PriceStart |-> ps, PriceEnd |-> pe]
Restrict(r, K) == [k \in K |-> r[k]]

\* raw price pairs: valid, non-positive, unparsable with and without letters, NaN
PricePairs ==
    { <<<<"1">>, <<" ", "2">>>>,
      <<<<"2", ".", "0">>, <<"1">>>>,
      <<<<"0">>, <<"1">>>>,
      <<<<"1">>, <<"-", "1">>>>,
      <<<<"-", "0">>, <<"0", ".", "0">>>>,
      <<<<"a">>, <<"1">>>>,
      <<<<"1">>, <<"1", "a">>>>,
      <<<<"-">>, <<"0">>>>,
      <<<<"1", ".", "2", ".">>, <<"a">>>>,
      <<<<>>, <<"2">>>>,
      <<<<"n", "a", "n">>, <<"1">>>> }

NameSectors == { <<<<"A">>, <<"T">>>>, <<<<" ", "B">>, <<"t", " ">>>> }

FullRows == {Row(p[1], p[2], q[1], q[2]) : p \in NameSectors, q \in PricePairs}

Template == Row(<<"C">>, <<"E">>, <<"2">>, <<"1">>)

\* rows that lack keys, and rows that hold None
HoleRows ==
    {Restrict(Template, K) : K \in (SUBSET KeySet) \ {KeySet}}
    \cup {[Template EXCEPT ![k] = None] : k \in KeySet}
    \cup {Restrict([Template EXCEPT !["Sector"] = None], KeySet \ {"Stock"})}

RawRows == FullRows \cup HoleRows

-----------------------------------------------------------------------------
(* The run of the script *)

NoCall == [q |-> "none", n |-> 0, value |-> <<>>]
NoFile == [written |-> FALSE, rows |-> <<>>]

Init ==
    /\ pc = "start"
    /\ stocks = <<>>
    /\ invalid_rows = <<>>
    /\ locals = NoLocals
    /\ log = <<>>
    /\ console = <<>>
    /\ ret = NoCall
    /\ first = NoCall
    /\ csvfile = NoFile

\* open() raises FileNotFoundError: reported, and the analyzer is left empty
FileNotFound ==
    /\ pc = "start"
    /\ pc' = "loaded"
    /\ console' = Append(console, "Error: File not found.")
    /\ UNCHANGED <<stocks, invalid_rows, locals, log, ret, first, csvfile>>

OpenFile ==
    /\ pc = "start"
    /\ pc' = "loading"
    /\ UNCHANGED <<stocks, invalid_rows, locals, log, console, ret, first, csvfile>>

\* the reader yields row and the loop body runs on it
ReadRow(row) ==
    /\ pc = "loading"
    /\ LET r == load_row(locals, row)
       IN  /\ locals' = r.locals
           /\ stocks' = IF r.kind = "stock" THEN Append(stocks, r.stock) ELSE stocks
           /\ invalid_rows' = IF r.kind = "rejected"
                              THEN Append(invalid_rows, r.entry)
                              ELSE invalid_rows
           /\ pc' = IF r.kind = "raised" THEN "crashed" ELSE "loading"
           /\ console' = IF r.kind = "raised" THEN Append(console, r.error)
                         ELSE IF r.kind = "rejected" THEN Append(console, "Warning: Skipping")
                         ELSE console
           /\ log' = Append(log, [row |-> row, stocks |-> Len(stocks'),
                                  invalid |-> Len(invalid_rows'),
                                  raised |-> IF r.kind = "raised" THEN r.error ELSE "none"])
    /\ UNCHANGED <<ret, first, csvfile>>

\* the reader is exhausted: load_data returns and the analyzer is constructed
EndOfFile ==
    /\ pc = "loading"
    /\ pc' = "loaded"
    /\ UNCHANGED <<stocks, invalid_rows, locals, log, console, ret, first, csvfile>>

-----------------------------------------------------------------------------
(* The methods of StockAnalyzer a constructed analyzer offers.  Each takes     *)
(* self = [stocks, invalid_rows] and gives what it returns (value) together    *)
(* with the two lists of self as the call leaves them.                         *)

Self == [stocks |-> stocks, invalid_rows |-> invalid_rows]
After(r) == [stocks |-> r.stocks, invalid_rows |-> r.invalid_rows]

Min(a, b) == IF a <= b THEN a ELSE b
Reverse(s) == [i \in 1..Len(s) |-> s[Len(s) + 1 - i]]

\* n of get_top_stocks when the caller passes none
DefaultN == 5

get_all_results(self) ==
    [value |-> [i \in 1..Len(self.stocks) |-> to_dict(self.stocks[i])],
     stocks |-> self.stocks, invalid_rows |-> self.invalid_rows]

\* x put into the ascending run after every element whose key is <= its own
RECURSIVE InsertAsc(_, _, _)
InsertAsc(run, x, key) ==
    IF run = <<>> THEN <<x>>
    ELSE IF key[Head(run)] <= key[x]
         THEN <<Head(run)>> \o InsertAsc(Tail(run), x, key)
         ELSE <<x>> \o run

\* a stable ascending sort of the indices s by key
RECURSIVE SortAsc(_, _)
SortAsc(s, key) ==
    IF s = <<>> THEN <<>>
    ELSE InsertAsc(SortAsc(SubSeq(s, 1, Len(s) - 1), key), s[Len(s)], key)

\* sorted(s, key=...)[::-1]
sorted_then_reversed(s, key) == Reverse(SortAsc(s, key))

\* sorted(s, key=..., reverse=True): the list is reversed, sorted stably in
\* ascending order and reversed again, which keeps equal keys in their order
sorted_reverse(s, key) == Reverse(SortAsc(Reverse(s), key))

\* get_top_stocks with self.stocks.sort(...) in place of sorted(self.stocks, ...)
get_top_stocks_inplace(self, n) ==
    LET key == [i \in 1..Len(self.stocks) |-> self.stocks[i].return_pct]
        order == sorted_reverse([i \in 1..Len(self.stocks) |-> i], key)
    IN  [value |-> SubSeq(order, 1, Min(n, Len(order))),
         stocks |-> [i \in 1..Len(order) |-> self.stocks[order[i]]],
         invalid_rows |-> self.invalid_rows]

\* the Stock objects of the result are given as their indices in self.stocks
get_top_stocks(self, n) ==
    LET key == [i \in 1..Len(self.stocks) |-> self.stocks[i].return_pct]
        sorted_stocks == sorted_reverse([i \in 1..Len(self.stocks) |-> i], key)
    IN  [value |-> SubSeq(sorted_stocks, 1, Min(n, Len(sorted_stocks))),
         stocks |-> self.stocks, invalid_rows |-> self.invalid_rows]

\* the defaultdict after the first loop, its keys in the order they were inserted
RECURSIVE sector_data(_)
sector_data(st) ==
    IF st = <<>> THEN <<>>
    ELSE LET d == sector_data(SubSeq(st, 1, Len(st) - 1))
             stock == st[Len(st)]
             at == {i \in 1..Len(d) : d[i].sector = stock.sector}
         IN  IF at = {}
             THEN Append(d, [sector |-> stock.sector,
                             total_return |-> 0 + stock.return_pct, count |-> 0 + 1])
             ELSE LET i == CHOOSE j \in at : TRUE
                  IN  [d EXCEPT ![i].total_return = @ + stock.return_pct,
                                ![i].count = @ + 1]

\* the summary dict, as the sequence of its items
summary_of(d) ==
    [i \in 1..Len(d) |->
        [sector |-> d[i].sector,
         avg_return |-> IF d[i].count > 0 THEN RoundDiv(d[i].total_return, d[i].count)
                        ELSE 0,
         count |-> d[i].count]]

aggregate_by_sector(self) ==
    [value |-> summary_of(sector_data(self.stocks)),
     stocks |-> self.stocks, invalid_rows |-> self.invalid_rows]

\* a maximum search that keeps the last of equal keys
max_last(summary) ==
    LET i == CHOOSE i \in 1..Len(summary) :
                 /\ \A j \in 1..Len(summary) : summary[j].avg_return <= summary[i].avg_return
                 /\ \A j \in (i + 1)..Len(summary) :
                        summary[j].avg_return < summary[i].avg_return
    IN  summary[i].sector

\* max(sector_summary, key=avg_return) of a non-empty summary: the first key,
\* in the dict's order, whose avg_return no other exceeds
max_by_avg_return(summary) ==
    LET i == CHOOSE i \in 1..Len(summary) :
                 /\ \A j \in 1..Len(summary) : summary[j].avg_return <= summary[i].avg_return
                 /\ \A j \in 1..(i - 1) : summary[j].avg_return < summary[i].avg_return
    IN  summary[i].sector

\* print_details: what it prints, or the ValueError max() raises on an empty summary
print_details(self) ==
    LET r1 == get_all_results(self)
        r2 == get_top_stocks(After(r1), DefaultN)
        r3 == aggregate_by_sector(After(r2))
        sector_summary == r3.value
    IN  IF sector_summary = <<>>
        THEN [value |-> [raised |-> "ValueError", results |-> r1.value, top5 |-> r2.value,
                         summary |-> <<>>, best_sector |-> <<>>, highlight |-> <<>>,
                         invalid |-> <<>>],
              stocks |-> r3.stocks, invalid_rows |-> r3.invalid_rows]
        ELSE LET best_sector == max_by_avg_return(sector_summary)
             IN  [value |-> [raised |-> "none", results |-> r1.value, top5 |-> r2.value,
                             summary |-> sector_summary, best_sector |-> best_sector,
                             highlight |-> [i \in 1..Len(sector_summary) |->
                                              sector_summary[i].sector = best_sector],
                             invalid |-> r3.invalid_rows],
                  stocks |-> r3.stocks, invalid_rows |-> r3.invalid_rows]

\* export_csv: the rows it hands to the writer, and the file as it leaves it;
\* writable is whether open(filename, 'w') succeeds
export_csv(self, file, writable) ==
    LET r == get_all_results(self)
    IN  [value |-> r.value, file |-> IF writable THEN [written |-> TRUE, rows |-> r.value] ELSE file,
         stocks |-> r.stocks, invalid_rows |-> r.invalid_rows]

-----------------------------------------------------------------------------
(* __main__ *)

ReadRawRow == \E row \in RawRows : Len(log) < MaxRows /\ ReadRow(row)

MainNoData ==
    /\ pc = "loaded"
    /\ stocks = <<>>
    /\ console' = Append(console, "No valid data to process.")
    /\ pc' = "done"
    /\ UNCHANGED <<stocks, invalid_rows, locals, log, ret, first, csvfile>>

MainPrintDetails ==
    /\ pc = "loaded"
    /\ stocks /= <<>>
    /\ LET r == print_details(Self)
       IN  /\ stocks' = r.stocks
           /\ invalid_rows' = r.invalid_rows
           /\ ret' = [q |-> "print_details", n |-> 0, value |-> r.value]
           /\ pc' = IF r.value.raised = "none" THEN "printed" ELSE "crashed"
           /\ console' = Append(console, IF r.value.raised = "none" THEN "report"
                                         ELSE r.value.raised)
    /\ UNCHANGED <<locals, log, first, csvfile>>

MainExportCsv ==
    /\ pc = "printed"
    /\ \E writable \in BOOLEAN :
         LET r == export_csv(Self, csvfile, writable)
         IN  /\ stocks' = r.stocks
             /\ invalid_rows' = r.invalid_rows
             /\ csvfile' = r.file
             /\ console' = Append(console, IF writable THEN "Results exported"
                                           ELSE "Error exporting to CSV")
    /\ pc' = "done"
    /\ UNCHANGED <<locals, log, ret, first>>

Next ==
    \/ FileNotFound
    \/ OpenFile
    \/ ReadRawRow
    \/ EndOfFile
    \/ MainNoData
    \/ MainPrintDetails
    \/ MainExportCsv

Spec == Init /\ [][Next]_vars

-----------------------------------------------------------------------------
(* A client of the class: it constructs an analyzer and calls its methods *)

\* four rows that load as records, with equal returns within and across sectors
\* and a sector written with and without padding, and a rejected row
ClientRows ==
    { Row(<<"A">>, <<"T">>, <<"1">>, <<" ", "2">>),
      Row(<<"B">>, <<"T", " ">>, <<"2">>, <<"2">>),
      Row(<<"C">>, <<"t">>, <<"1">>, <<"1">>),
      Row(<<"D">>, <<"t">>, <<"2">>, <<"1">>),
      Row(<<"N">>, <<"N">>, <<"0">>, <<"1">>) }

ReadClientRow == \E row \in ClientRows : Len(log) < MaxRecs /\ ReadRow(row)

Call(q, n, r) ==
    /\ pc = "loaded"
    /\ ret' = [q |-> q, n |-> n, value |-> r.value]
    /\ first' = IF first.q = "none" THEN ret' ELSE first
    /\ stocks' = r.stocks
    /\ invalid_rows' = r.invalid_rows
    /\ UNCHANGED <<pc, locals, log, console>>

CallGetAllResults ==
    Call("get_all_results", 0, get_all_results(Self)) /\ UNCHANGED csvfile

CallGetTopStocks ==
    \E n \in 0..MaxN : Call("get_top_stocks", n, get_top_stocks(Self, n)) /\ UNCHANGED csvfile

CallAggregateBySector ==
    Call("aggregate_by_sector", 0, aggregate_by_sector(Self)) /\ UNCHANGED csvfile

CallPrintDetails ==
    Call("print_details", 0, print_details(Self)) /\ UNCHANGED csvfile

CallExportCsv ==
    \E writable \in BOOLEAN :
        LET r == export_csv(Self, csvfile, writable)
        IN  /\ Call("export_csv", 0, r)
            /\ csvfile' = r.file

NextClient ==
    \/ FileNotFound
    \/ OpenFile
    \/ ReadClientRow
    \/ EndOfFile
    \/ CallGetAllResults
    \/ CallGetTopStocks
    \/ CallAggregateBySector
    \/ CallPrintDetails
    \/ CallExportCsv

SpecClient == Init /\ [][NextClient]_vars

-----------------------------------------------------------------------------
(* What became of each row, read off the history *)

StocksBefore(i) == IF i = 1 THEN 0 ELSE log[i - 1].stocks
InvalidBefore(i) == IF i = 1 THEN 0 ELSE log[i - 1].invalid

\* row i added a record to self.stocks / an entry to self.invalid_rows
BecameStock(i) == log[i].stocks = StocksBefore(i) + 1
BecameRejected(i) == log[i].invalid = InvalidBefore(i) + 1

\* the entry of self.invalid_rows that row i added
EntryOf(i) == invalid_rows[log[i].invalid]

\* load_data is over: it returned or an exception left it
LoadOver == pc \notin {"start", "loading"}

HasStr(row, k) == k \in DOMAIN row /\ row[k] /= None
Complete(row) == \A k \in KeySet : HasStr(row, k)
HasAlpha(s) == \E i \in 1..Len(s) : isalpha(s[i])

BothPositive(row) ==
    /\ HasStr(row, "PriceStart") /\ HasStr(row, "PriceEnd")
    /\ Gt0(float(row["PriceStart"])) /\ Gt0(float(row["PriceEnd"]))

-----------------------------------------------------------------------------
(* Claims *)

\* C1: once load_data is over, every row read is in exactly one of self.stocks
\* and self.invalid_rows: the two lengths add up to the number of rows read and
\* each row added one entry to one of the lists.
C1_EveryRowInExactlyOne ==
    LoadOver =>
        /\ Len(stocks) + Len(invalid_rows) = Len(log)
        /\ \A i \in DOMAIN log :
             /\ log[i].stocks - StocksBefore(i) + log[i].invalid - InvalidBefore(i) = 1
             /\ ~(BecameStock(i) /\ BecameRejected(i))

\* C2: no row makes the loop body raise out of load_data: every row read ends as
\* a record or a rejected row, and the load is never aborted.
C2_RowNeverRaises ==
    /\ \A i \in DOMAIN log : log[i].raised = "none" /\ (BecameStock(i) \/ BecameRejected(i))
    /\ pc /= "crashed"

PriceRuleReason(row) ==
    LET ps == float(row["PriceStart"])
        pe == float(row["PriceEnd"])
    IN  IF ps.kind = "ValueError" \/ pe.kind = "ValueError"
        THEN [msg |-> IF HasAlpha(row["PriceStart"]) \/ HasAlpha(row["PriceEnd"])
                      THEN "Invalid alphabets in PriceStart or PriceEnd"
                      ELSE "Invalid numeric format in PriceStart or PriceEnd",
              suffix |-> <<>>]
        ELSE [msg |-> "Prices must be > 0",
              suffix |-> SelectSeq(<<<<"PriceStart", ps>>, <<"PriceEnd", pe>>>>,
                                   LAMBDA f : Le0(f[2]))]

\* C4 as stated: a row is a record exactly when both prices parse and are > 0;
\* a rejected row's reason is the alphabets or numeric-format reason when a price
\* fails to parse, and "Prices must be > 0" with a suffix per non-positive price
\* when both parse; no other reason is recorded.
C4_AsStated ==
    \A i \in DOMAIN log :
        LET row == log[i].row
        IN  /\ BecameStock(i) <=> BothPositive(row)
            /\ BecameRejected(i) =>
                 /\ HasStr(row, "PriceStart") /\ HasStr(row, "PriceEnd")
                 /\ EntryOf(i).Reason = PriceRuleReason(row)
                 /\ EntryOf(i).Reason.msg = "Prices must be > 0"
                      => EntryOf(i).Reason.suffix /= <<>>

\* C4 amended: a row is a record exactly when it holds all four keys as strings
\* and both prices parse and are > 0; the reason of a rejected row is "Invalid
\* data format" when the row lacks a key, else the alphabets or numeric-format
\* reason when a price fails to parse, else "Prices must be > 0" with a suffix
\* for PriceStart iff it is <= 0 and then one for PriceEnd iff it is <= 0; no
\* other reason is recorded.
C4_ReasonOfFirstRule ==
    \A i \in DOMAIN log :
        LET row == log[i].row
        IN  /\ BecameStock(i) <=> (Complete(row) /\ BothPositive(row))
            /\ BecameRejected(i) =>
                 EntryOf(i).Reason =
                    IF \E k \in KeySet : k \notin DOMAIN row
                    THEN [msg |-> "Invalid data format", suffix |-> <<>>]
                    ELSE PriceRuleReason(row)

\* C4 witness: one row rejected for its format although its other price is not
\* positive, and one rejected with both suffixes
C4_Witness ==
    /\ \E i \in DOMAIN log :
         /\ BecameRejected(i) /\ Complete(log[i].row)
         /\ float(log[i].row["PriceStart"]).kind = "ValueError"
         /\ Le0(float(log[i].row["PriceEnd"]))
         /\ EntryOf(i).Reason.msg = "Invalid numeric format in PriceStart or PriceEnd"
    /\ \E i \in DOMAIN log :
         /\ BecameRejected(i)
         /\ Len(EntryOf(i).Reason.suffix) = 2

\* C7: a run that ends with no record has printed "No valid data to process."
\* and neither the report nor the export, and has not crashed; a run that ends
\* with records has printed the report and then run the export; max() never sees
\* an empty summary.
C7_MainOutcome ==
    pc \in {"done", "crashed"} =>
        /\ pc = "done"
        /\ \A i \in DOMAIN console : console[i] /= "ValueError"
        /\ LET said == SelectSeq(console, LAMBDA m : m \in {"No valid data to process.",
                                   "report", "Results exported", "Error exporting to CSV"})
           IN  IF stocks = <<>>
               THEN said = <<"No valid data to process.">>
               ELSE said \in {<<"report", "Results exported">>,
                              <<"report", "Error exporting to CSV">>}

-----------------------------------------------------------------------------
(* Claims about the queries *)

ReturnOf(i) == stocks[i].return_pct

RecordRows == {i \in DOMAIN log : BecameStock(i)}
SectorOfRow(i) == strip(log[i].row["Sector"])

\* C6: aggregate_by_sector has exactly one entry per trimmed Sector string of the
\* rows that became records, told apart by case, none for a sector whose rows were
\* all rejected; each count is the number of such rows, and the counts add up to
\* the number of records.
C6_SectorCounts ==
    ret.q = "aggregate_by_sector" =>
        LET summary == ret.value
        IN  /\ {summary[i].sector : i \in 1..Len(summary)}
                 = {SectorOfRow(i) : i \in RecordRows}
            /\ \A i, j \in 1..Len(summary) :
                 i /= j => summary[i].sector /= summary[j].sector
            /\ \A i \in 1..Len(summary) :
                 summary[i].count
                   = Cardinality({j \in RecordRows : SectorOfRow(j) = summary[i].sector})
            /\ Cardinality(RecordRows) = Len(stocks)

\* C6 witness: an entry counting two rows whose Sector strings differ in
\* padding, and a rejected row whose sector has no entry
C6_Witness ==
    /\ ret.q = "aggregate_by_sector"
    /\ \E i \in 1..Len(ret.value) :
         ret.value[i].sector = <<"T">> /\ ret.value[i].count = 2
    /\ \E i, j \in RecordRows : log[i].row["Sector"] = <<"T">>
                                /\ log[j].row["Sector"] = <<"T", " ">>
    /\ \E i \in DOMAIN log :
         /\ BecameRejected(i)
         /\ \A j \in 1..Len(ret.value) : ret.value[j].sector /= SectorOfRow(i)

FirstRecordOf(sector) ==
    CHOOSE i \in 1..Len(stocks) :
        /\ stocks[i].sector = sector
        /\ \A j \in 1..(i - 1) : stocks[j].sector /= sector

C10_ReadOnly ==
    [][ /\ pc = "loaded" => (stocks' = stocks /\ invalid_rows' = invalid_rows)
        /\ (ret'.q = first'.q /\ ret'.n = first'.n) => ret'.value = first'.value ]_vars

\* C10 witness: get_all_results was called first and again after an export, on
\* records that are not in descending order of return_pct, with a rejected row
C10_Witness ==
    /\ first.q = "get_all_results"
    /\ ret.q = "get_all_results"
    /\ csvfile.written
    /\ invalid_rows /= <<>>
    /\ \E i, j \in 1..Len(stocks) : i < j /\ ReturnOf(i) < ReturnOf(j)

=============================================================================
